---- MODULE Spec2Model ----
(***************************************************************************)
(* A model of SoCo's DIDL-Lite entry points:                               *)
(*   soco/data_structures_entry.py          from_didl_string               *)
(*   soco/music_services/data_structures_entry.py                          *)
(*                                          attempt_datastructure_upgrade  *)
(*   soco/playlists.py                      PlaylistManager.reorder_...    *)
(*                                                                         *)
(* Python text on which the code does character work (tags, upnp:class     *)
(* texts, URIs) is a sequence of one-character strings, so that endswith,  *)
(* find, startswith, rsplit and urlparse are computed as Python computes   *)
(* them.  Text that is only stored and compared (titles, ids, track lists) *)
(* is a TLA+ string.                                                       *)
(***************************************************************************)
EXTENDS Integers, Sequences, FiniteSets, TLC

VARIABLES
    _DIDL_CLASS_TO_CLASS,  \* dict: upnp class text -> class name
    _UPGRADE_FUNCTIONS,    \* list of registered upgrade callables (by name)
    pc,                    \* position of the running call
    doc,                   \* children of the parsed root element, in order
    idx,                   \* 1-based position of `for elt in root`
    item,                  \* local `item` of from_didl_string
    k,                     \* 1-based position of `for upgrade in ...`
    items,                 \* local `items` of from_didl_string
    outcome,               \* what the call gave its caller: a value or an exception
    trace,                 \* history of construct / upgrade / append steps
    arg,                   \* argument of a directly called function
    DIDL_NAME_TO_QUALIFIED_MS_NAME,  \* dict: Didl class name -> service class key
    rargs,                 \* arguments of reorder_sonos_playlist
    track_list,            \* local of reorder_sonos_playlist
    position_list,         \* local of reorder_sonos_playlist
    update_id,             \* local of reorder_sonos_playlist
    change,                \* local of reorder_sonos_playlist
    response,              \* local of reorder_sonos_playlist (may be unbound)
    pos,                   \* 1-based position of `for track, position in zip`
    calls,                 \* remote calls issued so far, in order
    parked                 \* locals of a second call of from_didl_string,
                           \* on a thread that is not running now

vars == <<_DIDL_CLASS_TO_CLASS, _UPGRADE_FUNCTIONS,
          DIDL_NAME_TO_QUALIFIED_MS_NAME, pc, doc, idx, item, k,
          items, outcome, trace, arg, rargs, track_list, position_list,
          update_id, change, response, pos, calls, parked>>

parserVars == <<doc, idx, item, k, items, trace>>
reorderVars == <<rargs, track_list, position_list, update_id, change,
                 response, pos, calls>>

(***************************************************************************)
(* Bounds of the model.                                                    *)
(***************************************************************************)
MaxDoc == 2          \* children of the document root
MaxUpgrades == 2     \* registered upgrade functions
MaxSuffix == 2       \* characters after '.#' in a class text
MaxResources == 2    \* resources of an item handed to the upgrade
MaxPairs == 2        \* length of the tracks / new_pos lists

(***************************************************************************)
(* Python values.                                                          *)
(***************************************************************************)
\* None where a text is expected: no text equals it, a text being made of
\* single characters
None == <<"None">>
Unbound == [py |-> "unbound local"]
NoAttr == "<no attribute>"
NoValue == [py |-> "no value"]

Returned(v) == [how |-> "return", value |-> v]
Raised(e) == [how |-> "raise", exc |-> e]

\* str.startswith
StartsWith(s, prefix) ==
    /\ Len(s) >= Len(prefix)
    /\ SubSeq(s, 1, Len(prefix)) = prefix

\* str.endswith
EndsWith(s, suffix) ==
    /\ Len(s) >= Len(suffix)
    /\ SubSeq(s, Len(s) - Len(suffix) + 1, Len(s)) = suffix

\* str.find(sub[, start]) with 1-based positions; 0 when sub does not occur
\* (Python: 0-based, -1).
FindFrom(s, sub, start) ==
    LET hits == {i \in start..(Len(s) - Len(sub) + 1) :
                     SubSeq(s, i, i + Len(sub) - 1) = sub}
    IN IF hits = {} THEN 0 ELSE CHOOSE i \in hits : \A j \in hits : i <= j

Find(s, sub) == FindFrom(s, sub, 1)

\* str.rfind(sub), 1-based; 0 when sub does not occur.
RFind(s, sub) ==
    LET hits == {i \in 1..(Len(s) - Len(sub) + 1) :
                     SubSeq(s, i, i + Len(sub) - 1) = sub}
    IN IF hits = {} THEN 0 ELSE CHOOSE i \in hits : \A j \in hits : i >= j

\* `sub in s`
Contains(s, sub) == Find(s, sub) # 0

(***************************************************************************)
(* Texts used by the model, as character sequences.                        *)
(***************************************************************************)
TAG_ITEM == <<"i", "t", "e", "m">>
TAG_CONTAINER == <<"c", "o", "n", "t", "a", "i", "n", "e", "r">>
TAG_DESC == <<"d", "e", "s", "c">>
TAG_FOO == <<"f", "o", "o">>
TAG_FOOITEM == <<"f", "o", "o">> \o TAG_ITEM
\* a namespace-qualified tag, '{d}item', as ElementTree reports it
TAG_NS_ITEM == <<"{", "d", "}">> \o TAG_ITEM

\* upnp:class texts; 'i.t' stands for object.item.audioItem.musicTrack,
\* 'i' for object.item, 'c' for object.container, 'i.b' for a class nobody
\* registered.
CLS_ITEM == <<"i">>
CLS_TRACK == <<"i", ".", "t">>
CLS_CONTAINER == <<"c">>
CLS_BOGUS == <<"i", ".", "b">>
SUFFIX_MARK == <<".", "#">>

SuffixChars == {"v", ".", "#"}

\* every text of at most n characters over the set chars
RECURSIVE TextsUpTo(_, _)
TextsUpTo(chars, n) ==
    IF n = 0 THEN {<<>>}
    ELSE LET shorter == TextsUpTo(chars, n - 1)
         IN shorter \cup {Append(t, c) : t \in shorter, c \in chars}

Suffixes == TextsUpTo(SuffixChars, MaxSuffix)

SONOS_PREFIX == <<"x", "-", "s", "o", "n", "o", "s", "-", "h", "t", "t", "p">>
ABC123 == <<"a", "b", "c", "1", "2", "3">>
DOT_MP3 == <<".", "m", "p", "3">>
ID_PREFIX == <<"1", "1", "1", "1", "1", "1", "1", "1">>

\* 'x-sonos-http://abc123.mp3'
URI_NETLOC == SONOS_PREFIX \o <<":", "/", "/">> \o ABC123 \o DOT_MP3
\* 'x-sonos-http:abc123.mp3'
URI_OPAQUE == SONOS_PREFIX \o <<":">> \o ABC123 \o DOT_MP3
\* 'x-sonos-http://h/abc123.mp3'
URI_HOST_PATH == SONOS_PREFIX \o <<":", "/", "/", "h", "/">> \o ABC123 \o DOT_MP3
\* 'x-sonos-http:abc123.mp3?sid=2#f'
URI_QUERY == URI_OPAQUE \o <<"?", "s", "i", "d", "=", "2", "#", "f">>
\* 'x-sonos-http:abc123'
URI_NO_EXT == SONOS_PREFIX \o <<":">> \o ABC123
\* 'x-sonos-http://h/a.b/c'
URI_DOT_DIR == SONOS_PREFIX \o <<":", "/", "/", "h", "/", "a", ".", "b", "/", "c">>
\* 'x-sonos-http'
URI_BARE == SONOS_PREFIX
\* 'x-sonos-http://[a/b.mp3'
URI_BRACKET == SONOS_PREFIX \o <<":", "/", "/", "[", "a", "/", "b">> \o DOT_MP3
\* 'x-sonos-http/a.b;c.d': no scheme, so urlparse splits parameters off
URI_PARAMS == SONOS_PREFIX \o <<"/", "a", ".", "b", ";", "c", ".", "d">>
\* 'x-file-cifs://abc123.mp3'
URI_LOCAL == <<"x", "-", "f", "i", "l", "e", "-", "c", "i", "f", "s", ":", "/", "/">>
                 \o ABC123 \o DOT_MP3
\* 'http://x-sonos-http/abc123.mp3': the prefix occurs, but not at the start
URI_INNER == <<"h", "t", "t", "p", ":", "/", "/">> \o SONOS_PREFIX \o <<"/">>
                 \o ABC123 \o DOT_MP3

SonosUris == {URI_NETLOC, URI_OPAQUE, URI_HOST_PATH, URI_QUERY, URI_NO_EXT,
              URI_DOT_DIR, URI_BARE, URI_BRACKET, URI_PARAMS}
OtherUris == {URI_LOCAL, URI_INNER, <<>>}
Uris == SonosUris \cup OtherUris

(***************************************************************************)
(* urlparse (Python standard library), as far as the path is concerned.    *)
(***************************************************************************)
Letters == {"a", "b", "c", "d", "e", "f", "g", "h", "i", "j", "k", "l", "m",
            "n", "o", "p", "q", "r", "s", "t", "u", "v", "w", "x", "y", "z"}
Digits == {"0", "1", "2", "3", "4", "5", "6", "7", "8", "9"}
SchemeChars == Letters \cup Digits \cup {"+", "-", "."}

\* the text from position i to the end
From(s, i) == SubSeq(s, i, Len(s))

\* the text before position i
Before(s, i) == SubSeq(s, 1, i - 1)

\* the text before the first occurrence of the character c, or all of it
BeforeFirst(s, c) ==
    IF Contains(s, <<c>>) THEN Before(s, Find(s, <<c>>)) ELSE s

\* urlsplit: the scheme is split off at the first ':' when everything before
\* it is scheme characters starting with a letter; a rest starting with '//'
\* has a netloc, which ends at the first of '/', '?', '#'; a netloc with one
\* square bracket but not the other is a ValueError; the path is what is
\* left before the first '#' and the first '?'.
UrlSplit(url) ==
    LET colon == Find(url, <<":">>)
        hasScheme == /\ colon > 1
                     /\ url[1] \in Letters
                     /\ \A j \in 1..(colon - 1) : url[j] \in SchemeChars
        scheme == IF hasScheme THEN Before(url, colon) ELSE <<>>
        rest == IF hasScheme THEN From(url, colon + 1) ELSE url
        hasNetloc == StartsWith(rest, <<"/", "/">>)
        ends == {FindFrom(rest, <<c>>, 3) : c \in {"/", "?", "#"}} \ {0}
        delim == IF ends = {} THEN Len(rest) + 1
                 ELSE CHOOSE i \in ends : \A j \in ends : i <= j
        netloc == IF hasNetloc THEN SubSeq(rest, 3, delim - 1) ELSE <<>>
        afterNetloc == IF hasNetloc THEN From(rest, delim) ELSE rest
        opens == Contains(netloc, <<"[">>)
        closes == Contains(netloc, <<"]">>)
    IN IF opens # closes
       THEN [ok |-> FALSE, exc |-> "ValueError"]
       ELSE [ok |-> TRUE, scheme |-> scheme, netloc |-> netloc,
             path |-> BeforeFirst(BeforeFirst(afterNetloc, "#"), "?")]

\* _splitparams: the path up to the first ';' of its last segment
SplitParams(url) ==
    LET slash == RFind(url, <<"/">>)
        semi == IF slash # 0 THEN FindFrom(url, <<";">>, slash)
                ELSE Find(url, <<";">>)
    IN IF semi = 0 THEN url ELSE Before(url, semi)

\* urlparse(uri): urlsplit, then the parameters are split off the path for
\* the schemes of uses_params.  Of those only the empty scheme can be the
\* scheme of a URI that starts with 'x-sonos-http'.
UrlParse(uri) ==
    LET split == UrlSplit(uri)
    IN IF ~split.ok THEN split
       ELSE IF split.scheme = <<>> /\ Contains(split.path, <<";">>)
            THEN [split EXCEPT !.path = SplitParams(split.path)]
            ELSE split

\* path.rsplit('.', 1)[0]
StripExtension(path) ==
    IF Contains(path, <<".">>) THEN Before(path, RFind(path, <<".">>)) ELSE path

(***************************************************************************)
(* Objects.                                                                *)
(***************************************************************************)
DidlResource(uri, protocol_info) ==
    [uri |-> uri, protocol_info |-> protocol_info]

\* an instance of a DidlObject subclass named cls
DidlObject(cls, item_id, parent_id, title, resources) ==
    [type |-> "DidlObject", cls |-> cls, item_id |-> item_id,
     parent_id |-> parent_id, title |-> title, resources |-> resources,
     marks |-> <<>>]

\* desc_from_uri(uri): the service descriptor, a function of the URI alone
desc_from_uri(uri) == [desc_of |-> uri]

\* get_class(key): the music service class registered under key
get_class(key) == key

\* cls(item_id=, desc=, resources=, uri=, metadata_dict=)
MusicServiceItem(cls, item_id, desc, resources, uri, metadata_dict) ==
    [type |-> "MusicServiceItem", cls |-> cls, item_id |-> item_id,
     desc |-> desc, resources |-> resources, uri |-> uri,
     metadata |-> metadata_dict, marks |-> <<>>]

\* didl_item.__class__.__name__
ClassName(obj) == obj.cls

\* didl_item.title, or NoAttr where the attribute lookup raises AttributeError
TitleOf(obj) ==
    IF obj.type = "DidlObject" THEN obj.title
    ELSE IF "title" \in DOMAIN obj.metadata THEN obj.metadata["title"]
    ELSE NoAttr

(***************************************************************************)
(* soco/music_services/data_structures_entry.py                            *)
(***************************************************************************)
Exception(type, what, about) == [exc |-> type, what |-> what, about |-> about]

\* metadata = {}; metadata['title'] = didl_item.title unless AttributeError
MetadataOf(didl_item) ==
    IF TitleOf(didl_item) = NoAttr THEN <<>>
    ELSE [key \in {"title"} |-> TitleOf(didl_item)]

\* a variant that builds the identifier from everything after the scheme
ItemIdWithNetloc(uri) ==
    ID_PREFIX \o <<"/">> \o StripExtension(UrlParse(uri).netloc \o UrlParse(uri).path)

\* item_id = '11111111{0}'.format(path), path being the URI's path without
\* its extension
ItemIdOf(uri) == ID_PREFIX \o StripExtension(UrlParse(uri).path)

attempt_datastructure_upgrade(didl_item) ==
    IF Len(didl_item.resources) = 0
    THEN Returned(didl_item)
    ELSE LET resource == didl_item.resources[1]
             uri == resource.uri
         IN IF ~StartsWith(uri, SONOS_PREFIX)
            THEN Returned(didl_item)
            ELSE IF ~UrlParse(uri).ok
            THEN Raised(Exception("ValueError", "Invalid IPv6 URL", uri))
            ELSE IF ClassName(didl_item) \notin DOMAIN DIDL_NAME_TO_QUALIFIED_MS_NAME
            THEN Returned(didl_item)
            ELSE Returned(MusicServiceItem(
                     get_class(DIDL_NAME_TO_QUALIFIED_MS_NAME[ClassName(didl_item)]),
                     ItemIdOf(uri), desc_from_uri(uri), didl_item.resources,
                     uri, MetadataOf(didl_item)))

(***************************************************************************)
(* soco/data_structures_entry.py                                           *)
(***************************************************************************)
\* The callables a module may append to _UPGRADE_FUNCTIONS.  The second one
\* stands for an upgrade registered by another module: it returns a copy of
\* the object that bears its mark, so that the order of the calls shows.
UpgradeNames == {"attempt_datastructure_upgrade", "other_upgrade"}

\* upgrade(item)
ApplyUpgrade(upgrade, obj) ==
    IF upgrade = "attempt_datastructure_upgrade"
    THEN attempt_datastructure_upgrade(obj)
    ELSE Returned([obj EXCEPT !.marks = Append(@, upgrade)])

\* The classes that register themselves in _DIDL_CLASS_TO_CLASS.
ClassTable ==
    (CLS_TRACK :> "DidlMusicTrack") @@ (CLS_CONTAINER :> "DidlContainer")

\* The same with one more class, whose key itself holds the '.#' mark.
VendorClassTable ==
    ClassTable @@ ((CLS_CONTAINER \o SUFFIX_MARK \o <<"v">>) :> "DidlVendorContainer")

PARENT_ID == <<"p">>

Element(tag, class, id, title, resources) ==
    [tag |-> tag, class |-> class, id |-> id, title |-> title,
     resources |-> resources]

\* elt.tag.endswith('item') or elt.tag.endswith('container')
IsItemOrContainer(tag) == EndsWith(tag, TAG_ITEM) \/ EndsWith(tag, TAG_CONTAINER)

\* a variant that cuts at the last '.#' (rfind for find)
StripAtLastMark(item_class) ==
    IF Contains(item_class, SUFFIX_MARK)
    THEN Before(item_class, RFind(item_class, SUFFIX_MARK))
    ELSE item_class

\* if '.#' in item_class: item_class = item_class[:item_class.find('.#')]
StripSuffix(item_class) ==
    IF Contains(item_class, SUFFIX_MARK)
    THEN Before(item_class, Find(item_class, SUFFIX_MARK))
    ELSE item_class

\* a variant that builds an unknown class as a plain DidlObject
ResolveClassOrBase(class_text) ==
    IF class_text = None
    THEN Raised(Exception("TypeError", "argument of type 'NoneType' is not iterable",
                          <<>>))
    ELSE IF StripSuffix(class_text) \in DOMAIN _DIDL_CLASS_TO_CLASS
    THEN Returned(_DIDL_CLASS_TO_CLASS[StripSuffix(class_text)])
    ELSE Returned("DidlObject")

\* findtext gave class_text (None when the element has no upnp:class child);
\* the result is the class, or the exception the lookup ends in.
ResolveClass(class_text) ==
    IF class_text = None
    THEN Raised(Exception("TypeError", "argument of type 'NoneType' is not iterable",
                          <<>>))
    ELSE IF StripSuffix(class_text) \in DOMAIN _DIDL_CLASS_TO_CLASS
    THEN Returned(_DIDL_CLASS_TO_CLASS[StripSuffix(class_text)])
    ELSE Raised(Exception("DIDLMetadataError", "Unknown UPnP class",
                          StripSuffix(class_text)))

\* cls.from_element(elt): an element without an id is malformed
FromElement(cls, elt) ==
    IF elt.id = None
    THEN Raised(Exception("DIDLMetadataError", "Missing id attribute", elt.tag))
    ELSE Returned(DidlObject(cls, elt.id, PARENT_ID, elt.title, elt.resources))

Event(ev, i, f, in, out) == [ev |-> ev, idx |-> i, f |-> f, in |-> in, out |-> out]

(***************************************************************************)
(* The documents parsed: each child of the root is one of these elements.  *)
(***************************************************************************)
Res(uri) == <<DidlResource(uri, "sonos.com-http:*:audio/mpeg:*")>>

ELT_TRACK == Element(TAG_ITEM, CLS_TRACK, <<"1">>, "Song A", Res(URI_NETLOC))
ELT_LOCAL == Element(TAG_ITEM, CLS_TRACK, <<"2">>, "Song B", Res(URI_LOCAL))
ELT_VENDOR ==
    Element(TAG_NS_ITEM, CLS_TRACK \o SUFFIX_MARK \o <<"v">>, <<"3">>, "Song C",
            Res(URI_OPAQUE))
ELT_CONTAINER == Element(TAG_CONTAINER, CLS_CONTAINER, <<"4">>, "Album", <<>>)
ELT_BOGUS == Element(TAG_ITEM, CLS_BOGUS \o SUFFIX_MARK \o <<"v">>, <<"5">>, "Song D",
                     Res(URI_LOCAL))
ELT_NO_CLASS == Element(TAG_ITEM, None, <<"6">>, "Song E", <<>>)
ELT_NO_ID == Element(TAG_ITEM, CLS_TRACK, None, "Song F", <<>>)
ELT_DESC == Element(TAG_DESC, None, None, "", <<>>)
ELT_FOO == Element(TAG_FOO, None, None, "", <<>>)
ELT_FOOITEM == Element(TAG_FOOITEM, CLS_TRACK, <<"7">>, "Song G", <<>>)
ELT_BRACKET == Element(TAG_ITEM, CLS_CONTAINER, <<"8">>, "Song H", Res(URI_BRACKET))

Elements == {ELT_TRACK, ELT_LOCAL, ELT_VENDOR, ELT_CONTAINER, ELT_BOGUS,
             ELT_NO_CLASS, ELT_NO_ID, ELT_DESC, ELT_FOO, ELT_FOOITEM,
             ELT_BRACKET}

Documents == TextsUpTo(Elements, MaxDoc)

(***************************************************************************)
(* Registration, at import.                                                *)
(***************************************************************************)
\* _DIDL_CLASS_TO_CLASS[class_text] = cls
RegisterClass(class_text) ==
    /\ pc = "import"
    /\ class_text \notin DOMAIN _DIDL_CLASS_TO_CLASS
    /\ _DIDL_CLASS_TO_CLASS' =
           [c \in DOMAIN _DIDL_CLASS_TO_CLASS \cup {class_text} |-> ClassTable[c]]
    /\ UNCHANGED <<_UPGRADE_FUNCTIONS, DIDL_NAME_TO_QUALIFIED_MS_NAME, pc,
                   parserVars, outcome, arg, parked, reorderVars>>

\* _UPGRADE_FUNCTIONS.append(upgrade)
RegisterUpgrade(upgrade) ==
    /\ pc = "import"
    /\ Len(_UPGRADE_FUNCTIONS) < MaxUpgrades
    /\ _UPGRADE_FUNCTIONS' = Append(_UPGRADE_FUNCTIONS, upgrade)
    /\ UNCHANGED <<_DIDL_CLASS_TO_CLASS, DIDL_NAME_TO_QUALIFIED_MS_NAME, pc,
                   parserVars, outcome, arg, parked, reorderVars>>

(***************************************************************************)
(* from_didl_string, one action per step of its loop.                      *)
(***************************************************************************)
registries == <<_DIDL_CLASS_TO_CLASS, _UPGRADE_FUNCTIONS,
                DIDL_NAME_TO_QUALIFIED_MS_NAME>>

\* items = []; root = XML.fromstring(...)
Call(children) ==
    /\ pc = "import"
    /\ pc' = "loop"
    /\ doc' = children
    /\ idx' = 1
    /\ items' = <<>>
    /\ UNCHANGED <<registries, item, k, trace, outcome, arg, parked, reorderVars>>

\* the exception leaves from_didl_string
Raise(result) ==
    /\ pc' = "raised"
    /\ outcome' = result
    /\ UNCHANGED <<doc, idx, item, k, items, trace>>

\* an item or container element: resolve its class and build the object
Construct ==
    /\ pc = "loop"
    /\ idx <= Len(doc)
    /\ IsItemOrContainer(doc[idx].tag)
    /\ LET cls == ResolveClass(doc[idx].class)
           built == FromElement(cls.value, doc[idx])
       IN IF cls.how = "raise" THEN Raise(cls)
          ELSE IF built.how = "raise" THEN Raise(built)
          ELSE /\ pc' = "upgrade"
               /\ item' = built.value
               /\ k' = 1
               /\ trace' = Append(trace,
                      Event("construct", idx, "", NoValue, built.value))
               /\ UNCHANGED <<doc, idx, items, outcome>>
    /\ UNCHANGED <<registries, arg, parked, reorderVars>>

\* a variant that passes over <desc> elements and rejects the rest
IllegalChildButDesc ==
    /\ pc = "loop"
    /\ idx <= Len(doc)
    /\ ~IsItemOrContainer(doc[idx].tag)
    /\ IF doc[idx].tag = TAG_DESC
       THEN /\ idx' = idx + 1
            /\ UNCHANGED <<pc, doc, item, k, items, trace, outcome>>
       ELSE Raise(Raised(Exception("DIDLMetadataError",
                                   "Illegal child of DIDL element", doc[idx].tag)))
    /\ UNCHANGED <<registries, arg, parked, reorderVars>>

\* any other element: raise DIDLMetadataError("Illegal child of DIDL element")
IllegalChild ==
    /\ pc = "loop"
    /\ idx <= Len(doc)
    /\ ~IsItemOrContainer(doc[idx].tag)
    /\ Raise(Raised(Exception("DIDLMetadataError", "Illegal child of DIDL element",
                              doc[idx].tag)))
    /\ UNCHANGED <<registries, arg, parked, reorderVars>>

\* a variant that walks the list from its end
NextUpgradeReversed(functions, n) == functions[Len(functions) + 1 - n]

\* the upgrade that `for upgrade in _UPGRADE_FUNCTIONS` yields at step n
NextUpgrade(functions, n) == functions[n]

\* item = upgrade(item), for the next upgrade of _UPGRADE_FUNCTIONS
Upgrade ==
    /\ pc = "upgrade"
    /\ k <= Len(_UPGRADE_FUNCTIONS)
    /\ LET upgrade == NextUpgrade(_UPGRADE_FUNCTIONS, k)
           upgraded == ApplyUpgrade(upgrade, item)
       IN IF upgraded.how = "raise" THEN Raise(upgraded)
          ELSE /\ item' = upgraded.value
               /\ k' = k + 1
               /\ trace' = Append(trace,
                      Event("upgrade", idx, upgrade, item, upgraded.value))
               /\ UNCHANGED <<pc, doc, idx, items, outcome>>
    /\ UNCHANGED <<registries, arg, parked, reorderVars>>

\* a variant that puts the item at the front
InsertFirst(list, obj) == <<obj>> \o list

\* where the item joins the list
AppendTo(list, obj) == Append(list, obj)

\* items.append(item)
AppendItem ==
    /\ pc = "upgrade"
    /\ k > Len(_UPGRADE_FUNCTIONS)
    /\ items' = AppendTo(items, item)
    /\ trace' = Append(trace, Event("append", idx, "", item, item))
    /\ idx' = idx + 1
    /\ pc' = "loop"
    /\ UNCHANGED <<registries, doc, item, k, outcome, arg, parked, reorderVars>>

\* return items
Return ==
    /\ pc = "loop"
    /\ idx > Len(doc)
    /\ pc' = "returned"
    /\ outcome' = Returned(items)
    /\ UNCHANGED <<registries, doc, idx, item, k, items, trace, arg, parked, reorderVars>>

ReorderIdle ==
    /\ rargs = NoValue
    /\ track_list = <<>>
    /\ position_list = <<>>
    /\ update_id = 0
    /\ change = 0
    /\ response = Unbound
    /\ pos = 1
    /\ calls = <<>>

\* the locals of a call that has not begun; `overlapped` notes whether the
\* two calls have been under way at the same time
IdleLocals ==
    [pc |-> "import", doc |-> <<>>, idx |-> 1, item |-> NoValue, k |-> 1,
     items |-> <<>>, outcome |-> NoValue, trace |-> <<>>, overlapped |-> FALSE]

ParserIdle ==
    /\ doc = <<>>
    /\ idx = 1
    /\ item = NoValue
    /\ k = 1
    /\ items = <<>>
    /\ trace = <<>>
    /\ parked = IdleLocals

Init ==
    /\ _DIDL_CLASS_TO_CLASS = <<>>
    /\ _UPGRADE_FUNCTIONS = <<>>
    /\ DIDL_NAME_TO_QUALIFIED_MS_NAME = [n \in {"DidlMusicTrack"} |-> "MediaMetadataTrack"]
    /\ pc = "import"
    /\ outcome = NoValue
    /\ arg = NoValue
    /\ ParserIdle
    /\ ReorderIdle

Next ==
    \/ \E class_text \in DOMAIN ClassTable : RegisterClass(class_text)
    \/ \E upgrade \in UpgradeNames : RegisterUpgrade(upgrade)
    \/ \E children \in Documents : Call(children)
    \/ Construct
    \/ IllegalChild
    \/ Upgrade
    \/ AppendItem
    \/ Return

Spec == Init /\ [][Next]_vars

(***************************************************************************)
(* Two calls of from_didl_string on two threads, after the imports.  Each  *)
(* call has its own locals; the interpreter runs one thread at a time and  *)
(* may change over between any two steps.                                  *)
(***************************************************************************)
\* the call is between its first step and its last
UnderWay(at) == at \in {"loop", "upgrade"}

\* the locals of the call that is running
Locals ==
    [pc |-> pc, doc |-> doc, idx |-> idx, item |-> item, k |-> k,
     items |-> items, outcome |-> outcome, trace |-> trace,
     overlapped |-> parked.overlapped \/ (UnderWay(pc) /\ UnderWay(parked.pc))]

\* a variant in which `items` is one list that both calls use
SwitchSharingItems ==
    /\ parked' = [Locals EXCEPT !.items = parked.items]
    /\ pc' = parked.pc
    /\ doc' = parked.doc
    /\ idx' = parked.idx
    /\ item' = parked.item
    /\ k' = parked.k
    /\ outcome' = parked.outcome
    /\ trace' = parked.trace
    /\ UNCHANGED <<registries, items, arg, reorderVars>>

\* the interpreter changes over to the other thread
Switch ==
    /\ parked' = Locals
    /\ pc' = parked.pc
    /\ doc' = parked.doc
    /\ idx' = parked.idx
    /\ item' = parked.item
    /\ k' = parked.k
    /\ items' = parked.items
    /\ outcome' = parked.outcome
    /\ trace' = parked.trace
    /\ UNCHANGED <<registries, arg, reorderVars>>

\* the documents the two threads parse: children that are upgraded, that
\* are left as they are, and that make the parse fail in its two ways
SharedDocuments ==
    TextsUpTo({ELT_TRACK, ELT_CONTAINER, ELT_BOGUS, ELT_DESC}, MaxDoc)

\* the upgrade lists after the imports: the shipped upgrade, alone or
\* after one more
ImportedUpgrades ==
    {<<"attempt_datastructure_upgrade">>,
     <<"other_upgrade", "attempt_datastructure_upgrade">>}

InitThreads ==
    /\ _DIDL_CLASS_TO_CLASS = ClassTable
    /\ _UPGRADE_FUNCTIONS \in ImportedUpgrades
    /\ DIDL_NAME_TO_QUALIFIED_MS_NAME = [n \in {"DidlMusicTrack"} |-> "MediaMetadataTrack"]
    /\ pc = "import"
    /\ outcome = NoValue
    /\ arg = NoValue
    /\ ParserIdle
    /\ ReorderIdle

NextThreads ==
    \/ \E children \in SharedDocuments : Call(children)
    \/ Construct
    \/ IllegalChild
    \/ Upgrade
    \/ AppendItem
    \/ Return
    \/ Switch

SpecThreads == InitThreads /\ [][NextThreads]_vars

(***************************************************************************)
(* Direct calls of the two pure functions, on inputs drawn from bounded    *)
(* sets: the class lookup and attempt_datastructure_upgrade.               *)
(***************************************************************************)
\* every registry that registration can build
Registries ==
    {[c \in keys |-> VendorClassTable[c]] : keys \in SUBSET DOMAIN VendorClassTable}

ClassIds == DOMAIN VendorClassTable \cup {CLS_ITEM, CLS_BOGUS}

\* registered and unregistered identifiers, bare and with every suffix
ClassTexts ==
    ClassIds \cup {id \o SUFFIX_MARK \o s : id \in ClassIds, s \in Suffixes}
             \cup TextsUpTo({"c", ".", "#"}, MaxSuffix)

InitResolve ==
    /\ _DIDL_CLASS_TO_CLASS \in Registries
    /\ _UPGRADE_FUNCTIONS = <<>>
    /\ DIDL_NAME_TO_QUALIFIED_MS_NAME = [n \in {"DidlMusicTrack"} |-> "MediaMetadataTrack"]
    /\ pc = "call"
    /\ outcome = NoValue
    /\ arg \in ClassTexts \cup {None}
    /\ ParserIdle
    /\ ReorderIdle

\* the lookup of lines 43-54 on the class text arg
CallResolveClass ==
    /\ pc = "call"
    /\ outcome' = ResolveClass(arg)
    /\ pc' = "done"
    /\ UNCHANGED <<registries, arg, parserVars, parked, reorderVars>>

SpecResolve == InitResolve /\ [][CallResolveClass]_vars

ResourceLists ==
    TextsUpTo({DidlResource(uri, "sonos.com-http:*:audio/mpeg:*") : uri \in Uris},
              MaxResources)

\* objects handed to the upgrade: library objects of a class with and of a
\* class without an entry in DIDL_NAME_TO_QUALIFIED_MS_NAME, and objects that
\* are music service items already
UpgradeInputs ==
    {DidlObject(cls, item_id, PARENT_ID, title, resources) :
        cls \in {"DidlMusicTrack", "DidlContainer"},
        item_id \in {<<"1">>, <<"2">>},
        title \in {"Song A", "Song B"},
        resources \in ResourceLists}
    \cup
    {MusicServiceItem("MediaMetadataTrack", ID_PREFIX, desc_from_uri(uri),
                      Res(uri), uri, metadata) :
        uri \in Uris,
        metadata \in {<<>>, [key \in {"title"} |-> "Song A"]}}

InitUpgrade ==
    /\ _DIDL_CLASS_TO_CLASS = ClassTable
    /\ _UPGRADE_FUNCTIONS = <<"attempt_datastructure_upgrade">>
    /\ DIDL_NAME_TO_QUALIFIED_MS_NAME = [n \in {"DidlMusicTrack"} |-> "MediaMetadataTrack"]
    /\ pc = "call"
    /\ outcome = NoValue
    /\ arg \in UpgradeInputs
    /\ ParserIdle
    /\ ReorderIdle

\* attempt_datastructure_upgrade(arg)
CallUpgrade ==
    /\ pc = "call"
    /\ outcome' = attempt_datastructure_upgrade(arg)
    /\ pc' = "done"
    /\ UNCHANGED <<registries, arg, parserVars, parked, reorderVars>>

SpecUpgrade == InitUpgrade /\ [][CallUpgrade]_vars

(***************************************************************************)
(* Properties of from_didl_string.                                         *)
(***************************************************************************)
IllegalChildError(tag) ==
    Raised(Exception("DIDLMetadataError", "Illegal child of DIDL element", tag))

UnknownClassError(class_text) ==
    Raised(Exception("DIDLMetadataError", "Unknown UPnP class", class_text))

\* the tag without its '{namespace}' part
LocalName(tag) ==
    IF Contains(tag, <<"}">>) THEN From(tag, RFind(tag, <<"}">>) + 1) ELSE tag

\* key is the part of class_text before its first '.#': a prefix that holds
\* no '.#' and is either all of the text or followed by '.#'
IsKeyOf(key, class_text) ==
    /\ StartsWith(class_text, key)
    /\ \A i \in 1..(Len(key) - 1) : SubSeq(key, i, i + 1) # SUFFIX_MARK
    /\ \/ key = class_text
       \/ StartsWith(From(class_text, Len(key) + 1), SUFFIX_MARK)

Prefixes(text) == {SubSeq(text, 1, n) : n \in 0..Len(text)}

\* the element at position i was rejected, or the loop has not come to it
RejectedWith(i, error) ==
    /\ i >= idx
    /\ i = idx => \/ pc = "loop"
                  \/ pc = "raised" /\ outcome = error

\* C1 as stated: a <desc> child of the root is accepted without an entry, so
\* no parse fails at a desc element.
C1_DescAccepted ==
    pc = "raised" => doc[idx].tag # TAG_DESC

\* C1 as amended: a <desc> child of the root is rejected like every other
\* child that is no item or container: the loop never gets past it, and where
\* the parse comes to it, it fails with the illegal-child DIDLMetadataError
\* naming the desc tag and returns no list.
C1_DescRejected ==
    \A i \in 1..Len(doc) :
        doc[i].tag = TAG_DESC => RejectedWith(i, IllegalChildError(TAG_DESC))

\* C1 witness: the parse failed at a desc element that follows a child it
\* had already turned into an object.
C1_Witness ==
    /\ pc = "raised"
    /\ idx = 2
    /\ doc[2].tag = TAG_DESC
    /\ Len(items) = 1

\* C2 as stated: every child of the root whose tag name is not exactly item,
\* container or desc is rejected with the illegal-child error naming its tag;
\* none is ever handled as an item.
C2_OnlyExactTagsPass ==
    \A i \in 1..Len(doc) :
        LocalName(doc[i].tag) \notin {TAG_ITEM, TAG_CONTAINER, TAG_DESC}
            => RejectedWith(i, IllegalChildError(doc[i].tag))

\* C3: an item/container element whose class text, cut before its first
\* '.#', is no key of the registry makes the parse fail with the unknown-class
\* error carrying the cut text, however many children came before it; the
\* loop never gets past such an element, so no list, partial or whole, is
\* returned for its document.
C3_UnknownClassFails ==
    \A i \in 1..Len(doc) :
        \A key \in Prefixes(doc[i].class) :
            /\ IsItemOrContainer(doc[i].tag)
            /\ doc[i].class # None
            /\ IsKeyOf(key, doc[i].class)
            /\ key \notin DOMAIN _DIDL_CLASS_TO_CLASS
            => /\ RejectedWith(i, UnknownClassError(key))
               /\ pc # "returned"

\* C3 witness: the parse failed with the unknown-class error at the second
\* child, after the first went through construction and the upgrades.
C3_Witness ==
    /\ pc = "raised"
    /\ idx = 2
    /\ Len(items) = 1
    /\ Len(_UPGRADE_FUNCTIONS) > 0
    /\ outcome = UnknownClassError(CLS_BOGUS)

\* C4 as stated: every failure of the parse reaches the caller as a
\* DIDLMetadataError; so does that of an item or container element without
\* a upnp:class child.
C4_TypedErrorOnly ==
    /\ pc = "raised"
    /\ IsItemOrContainer(doc[idx].tag)
    /\ doc[idx].class = None
    => outcome.exc.exc = "DIDLMetadataError"

\* what the registry gives for key by exact comparison
ExactLookup(key) ==
    IF key \in DOMAIN _DIDL_CLASS_TO_CLASS
    THEN Returned(_DIDL_CLASS_TO_CLASS[key])
    ELSE UnknownClassError(key)

\* C5: the class lookup uses as its key the text before the first '.#' of
\* the class text and compares exactly; so for a registered identifier ID and
\* any suffix S the text 'ID.#S' resolves as 'ID' does.
C5_SuffixStripped ==
    pc = "done" /\ arg # None =>
        /\ \A key \in Prefixes(arg) :
               IsKeyOf(key, arg) => outcome = ExactLookup(key)
        /\ \A id \in DOMAIN _DIDL_CLASS_TO_CLASS, s \in Suffixes :
               arg = id \o SUFFIX_MARK \o s =>
                   \A key \in Prefixes(id) :
                       IsKeyOf(key, id) => outcome = ExactLookup(key)

\* C5 witness: a registered identifier followed by a suffix that itself
\* holds '.#' was resolved to the identifier's class.
C5_Witness ==
    /\ pc = "done"
    /\ arg = CLS_TRACK \o SUFFIX_MARK \o SUFFIX_MARK
    /\ outcome = Returned("DidlMusicTrack")

\* the object after the first n upgrades of functions, none of them raising
RECURSIVE ChainOf(_, _, _)
ChainOf(obj, functions, n) ==
    IF n = 0 THEN obj
    ELSE ApplyUpgrade(functions[n], ChainOf(obj, functions, n - 1)).value

\* the object the parse makes of the element elt
UpgradedObjectOf(elt) ==
    ChainOf(FromElement(ExactLookup(StripSuffix(elt.class)).value, elt).value,
            _UPGRADE_FUNCTIONS, Len(_UPGRADE_FUNCTIONS))

\* the element is an item or container whose class resolves and of which
\* construction and every upgrade give an object
Resolves(elt) ==
    /\ IsItemOrContainer(elt.tag)
    /\ elt.class # None
    /\ \E key \in Prefixes(elt.class) :
           IsKeyOf(key, elt.class) /\ key \in DOMAIN _DIDL_CLASS_TO_CLASS
    /\ FromElement(ExactLookup(StripSuffix(elt.class)).value, elt).how = "return"
    /\ \A n \in 1..Len(_UPGRADE_FUNCTIONS) :
           ApplyUpgrade(_UPGRADE_FUNCTIONS[n],
               ChainOf(FromElement(ExactLookup(StripSuffix(elt.class)).value,
                                   elt).value,
                       _UPGRADE_FUNCTIONS, n - 1)).how = "return"

\* C6: the parse of a document whose N children all resolve does not fail,
\* and the list returned for it holds N objects, the i-th being the upgraded
\* object built from the i-th child: none is left out, repeated or moved.
C6_OrderPreserved ==
    /\ (\A i \in 1..Len(doc) : Resolves(doc[i])) => pc # "raised"
    /\ pc = "returned" =>
           /\ outcome.how = "return"
           /\ Len(outcome.value) = Len(doc)
           /\ \A i \in 1..Len(doc) : outcome.value[i] = UpgradedObjectOf(doc[i])

\* C6 witness: a list of two objects of different kinds was returned, the
\* first of them upgraded to a music service item.
C6_Witness ==
    /\ pc = "returned"
    /\ Len(outcome.value) = 2
    /\ outcome.value[1].type = "MusicServiceItem"
    /\ outcome.value[2].type = "DidlObject"

AppendEvents == SelectSeq(trace, LAMBDA e : e.ev = "append")

\* C7: whatever is appended to the result list is the end of a full chain:
\* right before the append come the construction of the object and then one
\* call of each function of _UPGRADE_FUNCTIONS, in the order of the list, each
\* fed the output of the step before it, and the object appended is the
\* output of the last; the list holds these objects and nothing else.
C7_UpgradeFold ==
    LET n == Len(_UPGRADE_FUNCTIONS)
    IN /\ \A j \in 1..Len(trace) :
              trace[j].ev = "append" =>
                  /\ j > n + 1
                  /\ trace[j - n - 1].ev = "construct"
                  /\ trace[j - n - 1].idx = trace[j].idx
                  /\ \A m \in 1..n :
                         /\ trace[j - n - 1 + m].ev = "upgrade"
                         /\ trace[j - n - 1 + m].idx = trace[j].idx
                         /\ trace[j - n - 1 + m].f = _UPGRADE_FUNCTIONS[m]
                         /\ trace[j - n - 1 + m].in = trace[j - n - 2 + m].out
                  /\ trace[j].out = trace[j - 1].out
       /\ Len(items) = Len(AppendEvents)
       /\ \A i \in 1..Len(items) : items[i] = AppendEvents[i].out

\* C7 witness: with two different upgrades registered, an object went
\* through both, the second acting on what the first returned, and was
\* returned in the list.
C7_Witness ==
    /\ pc = "returned"
    /\ _UPGRADE_FUNCTIONS = <<"attempt_datastructure_upgrade", "other_upgrade">>
    /\ Len(items) > 0
    /\ items[1].type = "MusicServiceItem"
    /\ items[1].marks = <<"other_upgrade">>

(***************************************************************************)
(* Properties of attempt_datastructure_upgrade.                            *)
(***************************************************************************)
\* a DidlMusicTrack titled 'Song A' whose only resource has the URI
\* 'x-sonos-http://abc123.mp3'
IsSongA(obj) ==
    /\ obj.type = "DidlObject"
    /\ obj.cls = "DidlMusicTrack"
    /\ obj.title = "Song A"
    /\ obj.resources = Res(URI_NETLOC)

\* the MediaMetadataTrack with the given identifier and with Song A's title
\* and resources, and nothing else of Song A
UpgradedSongA(item_id) ==
    MusicServiceItem("MediaMetadataTrack", item_id, desc_from_uri(URI_NETLOC),
                     Res(URI_NETLOC), URI_NETLOC, [title |-> "Song A"])

\* C8 as stated: Song A is upgraded to the MediaMetadataTrack with the
\* identifier '11111111/abc123', the same title and resources, and nothing
\* else of the original.
C8_IdentifierFromNetloc ==
    pc = "done" /\ IsSongA(arg) =>
        outcome = Returned(UpgradedSongA(ID_PREFIX \o <<"/">> \o ABC123))

\* C8 as amended: Song A is upgraded to the MediaMetadataTrack with the
\* identifier '11111111' (the prefix followed by the URI's path without its
\* extension, and the path of 'x-sonos-http://abc123.mp3' is empty), the
\* same title and resources, and nothing else of the original.
C8_IdentifierFromPath ==
    pc = "done" /\ IsSongA(arg) => outcome = Returned(UpgradedSongA(ID_PREFIX))

\* C8 witness: Song A, with an item id of its own, was upgraded.
C8_Witness ==
    /\ pc = "done"
    /\ IsSongA(arg)
    /\ arg.item_id = <<"2">>
    /\ outcome.how = "return"
    /\ outcome.value.type = "MusicServiceItem"

\* C9 as stated: the upgrade raises nothing and returns its argument itself
\* when the item has no resources, when its first resource's URI does not
\* start with 'x-sonos-http', and when the class of the item has no entry in
\* DIDL_NAME_TO_QUALIFIED_MS_NAME.
C9_ReturnsUnchanged ==
    /\ pc = "done"
    /\ \/ Len(arg.resources) = 0
       \/ ~StartsWith(arg.resources[1].uri, SONOS_PREFIX)
       \/ ClassName(arg) \notin DOMAIN DIDL_NAME_TO_QUALIFIED_MS_NAME
    => outcome = Returned(arg)

(***************************************************************************)
(* soco/playlists.py: PlaylistManager.reorder_sonos_playlist and the       *)
(* helpers that call it.  A Python value is a record of its type t and of  *)
(* its number n, text s or items, so that 1 and '1' differ as they do in   *)
(* Python; what the device answers is text, as it comes out of the SOAP    *)
(* response.                                                               *)
(***************************************************************************)
PyInt(n) == [t |-> "int", n |-> n, s |-> "", items |-> <<>>]
PyStr(text) == [t |-> "str", n |-> 0, s |-> text, items |-> <<>>]
PyNone == [t |-> "None", n |-> 0, s |-> "", items |-> <<>>]
PyList(values) == [t |-> "list", n |-> 0, s |-> "", items |-> values]

IntRange == -9..99

\* int(x) of a number or of its decimal text
int(x) ==
    IF x.t = "int" THEN x
    ELSE PyInt(CHOOSE n \in IntRange : ToString(n) = x.s)

\* str(x)
str(x) == IF x.t = "int" THEN PyStr(ToString(x.n)) ELSE x

\* str(x) if x is not None else ''
PositionText(x) == IF x = PyNone THEN PyStr("") ELSE str(x)

\* track_list, lines 229-239
TrackListOf(tracks) ==
    IF tracks.t \in {"str", "int"} THEN <<tracks>> ELSE [i \in 1..Len(tracks.items) |-> str(tracks.items[i])]

\* position_list, lines 229-239
PositionListOf(tracks, new_pos) ==
    IF tracks.t = "str" THEN <<new_pos>>
    ELSE IF tracks.t = "int"
    THEN <<IF new_pos = PyNone THEN PyStr("") ELSE new_pos>>
    ELSE [i \in 1..Len(new_pos.items) |-> PositionText(new_pos.items[i])]

\* zip(track_list, position_list) stops with the shorter list
ZipLen == IF Len(track_list) <= Len(position_list)
          THEN Len(track_list) ELSE Len(position_list)

TrackIndices == {0, 1}
Positions == {PyInt(0), PyInt(1), PyNone}
PassedUpdateIds == {0, 5}
DeviceUpdateIds == {"6", "7"}
DeviceLengths == {"1", "2"}
DeviceChanges == {"-1", "0"}

Pairs == {<<PyInt(track), position>> : track \in TrackIndices, position \in Positions}
PairLists == TextsUpTo(Pairs, MaxPairs)

\* the tracks / new_pos arguments: two lists, two numbers or two texts
ReorderArguments ==
    {<<PyList([i \in 1..Len(pairs) |-> pairs[i][1]]),
       PyList([i \in 1..Len(pairs) |-> pairs[i][2]])>> : pairs \in PairLists}
    \cup Pairs
    \cup {<<PyStr(tracks), PyStr(new_pos)>> :
             tracks \in {"1", "1,0"}, new_pos \in {"", "1", "0,1", "1,0"}}

\* lines 226-245: the lists, the update id (looked up when 0 was passed: the
\* response of the lookup is bound to `response`), change = 0
Enter(via, tracks, new_pos, passed_id, looked_up) ==
    /\ pc = "start"
    /\ pc' = "pairs"
    /\ rargs' = [via |-> via, tracks |-> tracks, new_pos |-> new_pos,
                 update_id |-> passed_id]
    /\ track_list' = TrackListOf(tracks)
    /\ position_list' = PositionListOf(tracks, new_pos)
    /\ IF passed_id = 0
       THEN /\ response' = [UpdateID |-> looked_up]
            /\ update_id' = PyStr(looked_up)
            /\ calls' = <<[sent |-> [call |-> "_music_lib_search"],
                            got |-> [UpdateID |-> looked_up]]>>
       ELSE /\ response' = Unbound
            /\ update_id' = PyInt(passed_id)
            /\ calls' = <<>>
    /\ change' = 0
    /\ pos' = 1
    /\ UNCHANGED <<registries, parserVars, parked, outcome, arg>>

\* reorder_sonos_playlist(sonos_playlist, tracks, new_pos, update_id)
ReorderSonosPlaylist(tracks, new_pos, passed_id, looked_up) ==
    Enter("reorder_sonos_playlist", tracks, new_pos, passed_id, looked_up)

\* move_in_sonos_playlist: reorder_sonos_playlist(.., int(track), int(new_pos), ..)
MoveInSonosPlaylist(track, new_pos, passed_id, looked_up) ==
    Enter("move_in_sonos_playlist", int(track), int(new_pos), passed_id, looked_up)

\* remove_from_sonos_playlist: reorder_sonos_playlist(.., int(track), None, ..)
RemoveFromSonosPlaylist(track, passed_id, looked_up) ==
    Enter("remove_from_sonos_playlist", int(track), PyNone, passed_id, looked_up)

\* if track == position: continue
SkipPair ==
    /\ pc = "pairs"
    /\ pos <= ZipLen
    /\ track_list[pos] = position_list[pos]
    /\ pos' = pos + 1
    /\ UNCHANGED <<registries, parserVars, parked, outcome, arg, pc, rargs, track_list,
                   position_list, update_id, change, response, calls>>

\* the same call carrying the update id the caller passed
ReorderCallPassedId ==
    [call |-> "ReorderTracksInSavedQueue", UpdateID |-> PyInt(rargs.update_id),
     TrackList |-> track_list[pos], NewPositionList |-> position_list[pos]]

\* the call to send for the pair at pos
ReorderCall == [call |-> "ReorderTracksInSavedQueue", UpdateID |-> update_id,
                TrackList |-> track_list[pos],
                NewPositionList |-> position_list[pos]]

\* response = self.avTransport.ReorderTracksInSavedQueue(...), answered
ReorderTracks(answer) ==
    /\ pc = "pairs"
    /\ pos <= ZipLen
    /\ track_list[pos] # position_list[pos]
    /\ calls' = Append(calls, [sent |-> ReorderCall, got |-> answer])
    /\ response' = answer
    /\ change' = change + int(PyStr(answer.QueueLengthChange)).n
    /\ update_id' = int(PyStr(answer.NewUpdateID))
    /\ pos' = pos + 1
    /\ UNCHANGED <<registries, parserVars, parked, outcome, arg, pc, rargs, track_list,
                   position_list>>

\* the same call, refused by the device: SoCoUPnPException
ReorderRefused ==
    /\ pc = "pairs"
    /\ pos <= ZipLen
    /\ track_list[pos] # position_list[pos]
    /\ calls' = Append(calls, [sent |-> ReorderCall,
                                got |-> [error |-> "SoCoUPnPException"]])
    /\ pc' = "done"
    /\ outcome' = Raised(Exception("SoCoUPnPException", "UPnP Error", <<>>))
    /\ UNCHANGED <<registries, parserVars, parked, arg, rargs, track_list, position_list,
                   update_id, change, response, pos>>

\* lines 259-263: length = int(response['NewQueueLength']) and the dict
Finish ==
    /\ pc = "pairs"
    /\ pos > ZipLen
    /\ pc' = "done"
    /\ outcome' =
           IF response = Unbound
           THEN Raised(Exception("UnboundLocalError",
                    "local variable 'response' referenced before assignment", <<>>))
           ELSE IF "NewQueueLength" \notin DOMAIN response
           THEN Raised(Exception("KeyError", "NewQueueLength", <<>>))
           ELSE Returned([change |-> change, update_id |-> update_id,
                          length |-> int(PyStr(response.NewQueueLength))])
    /\ UNCHANGED <<registries, parserVars, parked, arg, rargs, track_list, position_list,
                   update_id, change, response, pos, calls>>

InitReorder ==
    /\ _DIDL_CLASS_TO_CLASS = ClassTable
    /\ _UPGRADE_FUNCTIONS = <<"attempt_datastructure_upgrade">>
    /\ DIDL_NAME_TO_QUALIFIED_MS_NAME = [n \in {"DidlMusicTrack"} |-> "MediaMetadataTrack"]
    /\ pc = "start"
    /\ outcome = NoValue
    /\ arg = NoValue
    /\ ParserIdle
    /\ ReorderIdle

NextReorder ==
    \/ \E arguments \in ReorderArguments, passed_id \in PassedUpdateIds,
          looked_up \in DeviceUpdateIds :
           ReorderSonosPlaylist(arguments[1], arguments[2], passed_id, looked_up)
    \/ \E track \in TrackIndices, new_pos \in TrackIndices,
          passed_id \in PassedUpdateIds, looked_up \in DeviceUpdateIds :
           MoveInSonosPlaylist(PyInt(track), PyStr(ToString(new_pos)), passed_id,
                               looked_up)
    \/ \E track \in TrackIndices, passed_id \in PassedUpdateIds,
          looked_up \in DeviceUpdateIds :
           RemoveFromSonosPlaylist(PyInt(track), passed_id, looked_up)
    \/ \E change_text \in DeviceChanges, length_text \in DeviceLengths,
          id_text \in DeviceUpdateIds :
           ReorderTracks([QueueLengthChange |-> change_text,
                          NewQueueLength |-> length_text,
                          NewUpdateID |-> id_text])
    \/ ReorderRefused
    \/ SkipPair
    \/ Finish

SpecReorder == InitReorder /\ [][NextReorder]_vars

\* C10 as stated: a call that the device does not refuse returns a dict of
\* change, length and update_id, also when every pair is a no-op or the
\* lists are empty.
C10_ReturnsDict ==
    pc = "done" =>
        IF outcome.how = "return"
        THEN DOMAIN outcome.value = {"change", "length", "update_id"}
        ELSE outcome.exc.exc = "SoCoUPnPException"

\* The words of C11.
IsLookup(entry) == entry.sent.call = "_music_lib_search"
IsReorder(entry) == entry.sent.call = "ReorderTracksInSavedQueue"
IsAnswered(entry) == "NewUpdateID" \in DOMAIN entry.got
IsMove(pair) == pair[1] # pair[2]

\* the lookups performed and the reorder calls issued so far, in order
LookupsIssued == SelectSeq(calls, IsLookup)
ReordersIssued == SelectSeq(calls, IsReorder)

\* the pairs the loop has been through: those before pos, and the pair at
\* pos when its call was refused
PairsTaken ==
    LET n == IF pc = "done" /\ outcome.how = "raise"
                /\ outcome.exc.exc = "SoCoUPnPException"
             THEN pos ELSE pos - 1
    IN  [i \in 1..n |-> <<track_list[i], position_list[i]>>]

RECURSIVE SumOfChanges(_)
SumOfChanges(entries) ==
    IF entries = <<>> THEN 0
    ELSE int(PyStr(Head(entries).got.QueueLengthChange)).n + SumOfChanges(Tail(entries))

\* C11: a lookup is performed exactly when update_id 0 was passed, and before
\* any reorder call; the first ReorderTracksInSavedQueue call carries the
\* passed or the looked-up update id and every later one the NewUpdateID the
\* call before it returned; the calls issued are those of the pairs with
\* track # position, in order; and the dict returned holds the NewUpdateID of
\* the last call issued and the sum of the QueueLengthChange of the calls.
C11_UpdateIdThreaded ==
    pc # "start" =>
        LET reorders == ReordersIssued
            moves == SelectSeq(PairsTaken, IsMove)
        IN  /\ Len(LookupsIssued) = (IF rargs.update_id = 0 THEN 1 ELSE 0)
            /\ rargs.update_id = 0 => IsLookup(calls[1])
            /\ Len(calls) = Len(LookupsIssued) + Len(reorders)
            /\ reorders # <<>> =>
                   reorders[1].sent.UpdateID =
                       IF rargs.update_id = 0 THEN PyStr(calls[1].got.UpdateID)
                       ELSE PyInt(rargs.update_id)
            /\ \A i \in 2..Len(reorders) :
                   /\ IsAnswered(reorders[i - 1])
                   /\ reorders[i].sent.UpdateID =
                          int(PyStr(reorders[i - 1].got.NewUpdateID))
            /\ Len(reorders) = Len(moves)
            /\ \A i \in 1..Len(reorders) :
                   <<reorders[i].sent.TrackList, reorders[i].sent.NewPositionList>>
                       = moves[i]
            /\ (pc = "done" /\ outcome.how = "return") =>
                   /\ reorders # <<>>
                   /\ \A i \in 1..Len(reorders) : IsAnswered(reorders[i])
                   /\ outcome.value.update_id =
                          int(PyStr(reorders[Len(reorders)].got.NewUpdateID))
                   /\ outcome.value.change = SumOfChanges(reorders)

\* C11 happens: a call that passed update_id 0 has returned after a lookup and
\* two reorder calls that were answered with different update ids and with a
\* change of the length.
C11_Witness ==
    /\ pc = "done"
    /\ outcome.how = "return"
    /\ rargs.update_id = 0
    /\ Len(ReordersIssued) = 2
    /\ ReordersIssued[1].got.NewUpdateID # ReordersIssued[2].got.NewUpdateID
    /\ ReordersIssued[1].got.NewUpdateID # calls[1].got.UpdateID
    /\ outcome.value.change = -2

\* C11 happens the other way: a call that passed an update id made no lookup,
\* skipped a pair with track = position and issued one call for the other.
C11_WitnessSkip ==
    /\ pc = "done"
    /\ outcome.how = "return"
    /\ rargs.update_id # 0
    /\ Len(PairsTaken) = 2
    /\ Len(ReordersIssued) = 1
    /\ ~IsMove(PairsTaken[1])

\* The words of C12: what from_didl_string gives for a document when nothing
\* else runs, computed step by step as the loop of lines 41-73 does.
RECURSIVE UpgradesFrom(_, _)
UpgradesFrom(obj, n) ==
    IF n > Len(_UPGRADE_FUNCTIONS) THEN Returned(obj)
    ELSE LET upgraded == ApplyUpgrade(NextUpgrade(_UPGRADE_FUNCTIONS, n), obj)
         IN  IF upgraded.how = "raise" THEN upgraded
             ELSE UpgradesFrom(upgraded.value, n + 1)

ElementAlone(elt) ==
    IF ~IsItemOrContainer(elt.tag) THEN IllegalChildError(elt.tag)
    ELSE LET cls == ResolveClass(elt.class)
             built == FromElement(cls.value, elt)
         IN  IF cls.how = "raise" THEN cls
             ELSE IF built.how = "raise" THEN built
             ELSE UpgradesFrom(built.value, 1)

RECURSIVE ParseFrom(_, _, _)
ParseFrom(children, i, list) ==
    IF i > Len(children) THEN Returned(list)
    ELSE LET made == ElementAlone(children[i])
         IN  IF made.how = "raise" THEN made
             ELSE ParseFrom(children, i + 1, AppendTo(list, made.value))

ParseAlone(children) == ParseFrom(children, 1, <<>>)

\* the call with these locals is over and gave what the parse of its
\* document gives alone
SameAsAlone(locals) ==
    locals.pc \in {"returned", "raised"} => locals.outcome = ParseAlone(locals.doc)

\* C12: no step of a call of from_didl_string, the upgrades it applies
\* included, changes _DIDL_CLASS_TO_CLASS, _UPGRADE_FUNCTIONS or
\* DIDL_NAME_TO_QUALIFIED_MS_NAME, whether the call returns or fails; and
\* however the steps of two calls are interleaved, each call gives for its
\* document what the parse of that document gives alone.
C12_RegistriesOnlyRead ==
    /\ [][registries' = registries]_vars
    /\ [](SameAsAlone(Locals) /\ SameAsAlone(parked))

\* C12 happens: two calls that were under way at the same time are both
\* over, one with a list of two objects the first of which was upgraded,
\* the other with an error after it had appended an object.
C12_Witness ==
    /\ pc = "returned"
    /\ Len(outcome.value) = 2
    /\ outcome.value[1].type = "MusicServiceItem"
    /\ parked.pc = "raised"
    /\ Len(parked.items) = 1
    /\ parked.overlapped

====
